---- MODULE Spec2Model ----
(***************************************************************************)
(* rustop: a terminal dashboard.  main() of src/rustop/src/main.rs as a    *)
(* state machine: session start-up, the refresh/draw/poll loop, shutdown.  *)
(* Time is in milliseconds.  CPU percentages (f32 in the source) are kept  *)
(* in tenths of a percent, or are the value NaN.                           *)
(***************************************************************************)
EXTENDS Integers, Sequences, FiniteSets, TLC

\* ------------------------------------------------------------------ bounds

\* The run is observed for Horizon tick intervals: no tick starts later.
Horizon == 2
\* Largest process table the metric source yields.
MaxProcs == 12
\* Most events ever waiting in the terminal's input queue.
MaxQueue == 2
\* Longest the poll returns after its timeout has run out (ms).
MaxOvershoot == 100
\* Largest used-memory reading tried against each total.
MaxUsed == 120

\* --------------------------------------------------------- program constants

\* Duration::from_millis(800)
tick_rate == 800
\* .take(10)
TopN == 10
\* u16::MAX, the saturation point of `as u16`
U16Max == 65535
\* width of an f64 significand
F64Digits == 53

\* ------------------------------------------------------- f64 arithmetic
\* A positive finite f64 is [sig |-> <<l1, l2, l3, l4, l5>>, e |-> k]: its
\* 53-digit significand in limbs of 13 binary digits, most significant first
\* (l1 = 1 is the leading digit), worth (the significand) * 2^k.  Zero is
\* F64Zero.  Operations round to nearest, ties to even, as IEEE 754 does.
\* Operands of F64Div stay below 2^17 so that no intermediate leaves 32 bits.

LimbDigits == F64Digits \div 4
Limb == 2^LimbDigits
F64Zero == [sig |-> <<>>, e |-> 0]

RECURSIVE BitLen(_)
\* the number of binary digits of n
BitLen(n) == IF n = 0 THEN 0 ELSE 1 + BitLen(n \div 2)

\* sig + 1 in the last place; an all-ones significand carries into the exponent
F64Pack(sig, e, up) ==
    IF ~up THEN [sig |-> sig, e |-> e]
    ELSE IF \A i \in 2..Len(sig) : sig[i] = Limb - 1
         THEN [sig |-> [i \in 1..Len(sig) |-> IF i = 1 THEN 1 ELSE 0], e |-> e + 1]
         ELSE LET p == CHOOSE i \in 2..Len(sig) :
                           sig[i] < Limb - 1 /\ \A j \in (i + 1)..Len(sig) : sig[j] = Limb - 1
              IN  [sig |-> [i \in 1..Len(sig) |->
                               IF i < p THEN sig[i] ELSE IF i = p THEN sig[i] + 1 ELSE 0],
                   e |-> e]

RECURSIVE DivLimbs(_, _, _, _)
\* k further quotient limbs of r / d (r < d) appended to acc, and the
\* remainder after them
DivLimbs(r, d, k, acc) ==
    IF k = 0 THEN [sig |-> acc, rem |-> r]
    ELSE DivLimbs((r * Limb) % d, d, k - 1, Append(acc, (r * Limb) \div d))

\* `u as f64 / t as f64` for unsigned integers u, t (both conversions are
\* exact below 2^53), t > 0: the f64 nearest to the quotient
F64Div(u, t) ==
    IF u = 0 THEN F64Zero
    ELSE LET s  == BitLen(u) - BitLen(t)
             ge == IF s >= 0 THEN u >= t * 2^s ELSE u * 2^(-s) >= t
             k  == IF ge THEN s ELSE s - 1
             n  == IF k < 0 THEN u * 2^(-k) ELSE u
             d  == IF k > 0 THEN t * 2^k ELSE t
             q  == DivLimbs(n - d, d, 4, <<1>>)
         IN  F64Pack(q.sig, k - (F64Digits - 1),
                     2 * q.rem > d \/ (2 * q.rem = d /\ q.sig[5] % 2 = 1))

RECURSIVE MulLimbs(_, _, _, _)
\* the limbs i..1 of sig, times c, plus carry
MulLimbs(sig, i, c, carry) ==
    IF i = 1 THEN <<sig[1] * c + carry>>
    ELSE Append(MulLimbs(sig, i - 1, c, (sig[i] * c + carry) \div Limb),
                (sig[i] * c + carry) % Limb)

\* x * (c as f64) for an f64 x and an integer 0 < c < 2^12
F64Mul(x, c) ==
    IF x = F64Zero THEN F64Zero
    ELSE LET p     == MulLimbs(x.sig, Len(x.sig), c, 0)
             drop  == BitLen(p[1]) - 1
             tail  == p[5] % 2^drop
             kept  == [i \in 1..5 |-> (p[i] \div 2^drop)
                          + (IF i > 1 THEN (p[i - 1] % 2^drop) * 2^(LimbDigits - drop) ELSE 0)]
         IN  F64Pack(kept, x.e + drop,
                     2 * tail > 2^drop \/ (drop > 0 /\ 2 * tail = 2^drop /\ kept[5] % 2 = 1))

\* `x as u16` for an f64 x >= 0: the fraction is discarded and the value
\* saturates at u16::MAX
F64AsU16(x) ==
    IF x = F64Zero THEN 0
    ELSE LET digits == F64Digits + x.e
         IN  IF digits <= 0 THEN 0
             ELSE IF digits > 16 THEN U16Max
             ELSE ((x.sig[1] * Limb + x.sig[2]) * Limb + x.sig[3])
                      \div 2^(2 * LimbDigits + 1 - digits)

\* line 69-73: the memory gauge's percent
MemPercent(used, total) ==
    IF total > 0 THEN F64AsU16(F64Mul(F64Div(used, total), 100)) ELSE 0

\* ------------------------------------------------------- f32 CPU readings
\* An f32 CPU reading is NaN or a number v of tenths of a percent.

F32(v) == [nan |-> FALSE, v |-> v]
NaN == [nan |-> TRUE, v |-> 0]

\* (cpu_usage as u16).min(100): the cast, clamped to the gauge's range
F32AsU16Clamped(c) ==
    IF c.nan \/ c.v < 0 THEN 0
    ELSE IF c.v \div 10 > 100 THEN 100 ELSE c.v \div 10

\* line 66: `cpu_usage as u16`: NaN and negatives give 0, the fraction is
\* discarded, large values saturate
F32AsU16(c) ==
    IF c.nan \/ c.v < 0 THEN 0
    ELSE IF c.v \div 10 > U16Max THEN U16Max ELSE c.v \div 10

\* f32::partial_cmp: None when either side is NaN
PartialCmp(x, y) ==
    IF x.nan \/ y.nan THEN "None"
    ELSE IF x.v < y.v THEN "Less" ELSE IF x.v = y.v THEN "Equal" ELSE "Greater"

\* a.partial_cmp(b): ascending
CompareAscending(a, b) == PartialCmp(a.cpu, b.cpu)

\* line 86-90: the closure handed to sort_by, before its unwrap()
Compare(a, b) == PartialCmp(b.cpu, a.cpu)

RECURSIVE InsertTail(_, _, _)
\* slice::sort_by on a short slice is an insertion sort: x is compared with
\* the sorted elements from the right and moves left while it is Less; a
\* comparison that yields None panics in unwrap()
InsertTail(sorted, x, j) ==
    IF j = 0 THEN [panic |-> FALSE, v |-> <<x>> \o sorted]
    ELSE IF Compare(x, sorted[j]) = "None" THEN [panic |-> TRUE, v |-> <<>>]
    ELSE IF Compare(x, sorted[j]) = "Less" THEN InsertTail(sorted, x, j - 1)
    ELSE [panic |-> FALSE,
          v |-> SubSeq(sorted, 1, j) \o <<x>> \o SubSeq(sorted, j + 1, Len(sorted))]

RECURSIVE SortFrom(_, _, _)
SortFrom(acc, v, i) ==
    IF i > Len(v) THEN [panic |-> FALSE, v |-> acc]
    ELSE IF InsertTail(acc, v[i], Len(acc)).panic THEN [panic |-> TRUE, v |-> <<>>]
    ELSE SortFrom(InsertTail(acc, v[i], Len(acc)).v, v, i + 1)

\* line 86-90: processes.sort_by(..)
SortBy(v) == SortFrom(<<>>, v, 1)

\* .rev().take(10): the 10 last of the sorted vector
TakeLast(v) == SubSeq(v, IF Len(v) < TopN THEN 1 ELSE Len(v) - TopN + 1, Len(v))

\* line 92-94: .iter().take(10)
Take(v) == SubSeq(v, 1, IF Len(v) < TopN THEN Len(v) ELSE TopN)

\* line 95-103: one list line: pid, name-less here, CPU to one decimal (the
\* tenths the reading is kept in), memory / 1024
Format(p) == [pid |-> p.pid, cpu |-> p.cpu, mem |-> p.memory \div 1024]

\* line 61-104: what the closure derives from the snapshot: the two gauge
\* percents, the ranked processes and their list lines; or a panic
DeriveFrame(s) ==
    IF SortBy(s.procs).panic THEN [panic |-> TRUE]
    ELSE [panic       |-> FALSE,
          cpu_percent |-> F32AsU16(s.cpu),
          mem_percent |-> MemPercent(s.used, s.total),
          ranked      |-> Take(SortBy(s.procs).v),
          items       |-> [i \in 1..Len(Take(SortBy(s.procs).v)) |->
                              Format(Take(SortBy(s.procs).v)[i])]]

\* ------------------------------------------------- what the environment yields

\* global CPU readings: idle, 12.5 %, just below and at 100 %, 100.9 %, 101 %,
\* 101.5 % and 400 % (several cores), the last below and the first at and
\* beyond u16::MAX, a negative one, and NaN
CpuReadings ==
    {F32(0), F32(125), F32(999), F32(1000), F32(1009), F32(1010), F32(1015),
     F32(4000), F32(655359), F32(655360), F32(700000), F32(-5), NaN}

\* <<total, used>> memory readings
MemReadings ==
    {<<t, u>> : t \in {0, 1, 3, 50, 100}, u \in 0..MaxUsed}
        \cup {<<8000, 4000>>, <<8000, 8000>>, <<1, 700>>}

ProcCpu == <<900, 455, 455, 100, 0, 1200, 33>>

Proc(pid, cpu) == [pid |-> pid, cpu |-> cpu, memory |-> 2048 * pid + 512]

\* a table of n processes, in the order the process map yields them
Table(n, seed) ==
    [i \in 1..n |-> Proc(i, F32(ProcCpu[((i * seed) % Len(ProcCpu)) + 1]))]

\* P1(90.0), P2(45.5), P3(45.5), P4(10.0) in some order
ExampleTable == <<Proc(4, F32(100)), Proc(2, F32(455)), Proc(1, F32(900)), Proc(3, F32(455))>>

ProcTables ==
    {Table(n, seed) : n \in 0..MaxProcs, seed \in {1, 3}}
        \cup {ExampleTable,
              <<Proc(1, NaN)>>,
              <<Proc(1, F32(900)), Proc(2, NaN)>>,
              <<Proc(1, F32(900)), Proc(2, F32(455)), Proc(3, NaN), Proc(4, F32(100))>>}

BaseSnapshot == [cpu |-> F32(125), total |-> 8000, used |-> 4000, procs |-> ExampleTable]

\* what one refresh_all() can leave in `sys`: every reading above, one
\* dimension at a time
Snapshots ==
    {[BaseSnapshot EXCEPT !.cpu = c] : c \in CpuReadings}
        \cup {[BaseSnapshot EXCEPT !.total = m[1], !.used = m[2]] : m \in MemReadings}
        \cup {[BaseSnapshot EXCEPT !.procs = t] : t \in ProcTables}

\* the snapshots the runs of the whole loop are checked with: the example, a
\* table with an unordered reading, a table longer than the list with used
\* memory above the total
LoopSnapshots ==
    {BaseSnapshot,
     [BaseSnapshot EXCEPT !.procs = <<Proc(1, F32(900)), Proc(2, NaN)>>],
     [BaseSnapshot EXCEPT !.cpu = F32(4000), !.total = 100, !.used = 150,
                          !.procs = Table(TopN + 2, 3)]}

\* terminal events: the quit key, another key, a non-key event
KeyQ == [kind |-> "Key", code |-> "q"]
KeyX == [kind |-> "Key", code |-> "x"]
Resize == [kind |-> "Resize", code |-> ""]
Events == {KeyQ, KeyX, Resize}
NoEvent == [kind |-> "None", code |-> ""]

\* what one refresh and draw can cost, and how long into a poll an event
\* can arrive (ms)
DrawCosts == {100, 900}
Waits == {300}
Overshoots == {0, MaxOvershoot}

\* ------------------------------------------------------------------ state

VARIABLES
    pc,           \* the statement main() is at
    result,       \* "none" while main runs, then "Ok", "Err" or "panic"
    error,        \* the call whose error main returned
    raw_mode,     \* raw mode is on
    alt_screen,   \* the alternate screen is entered
    cursor,       \* "shown" or "hidden"
    sys,          \* the metric source's snapshot
    frame,        \* the closure's locals while a draw pass runs
    now,          \* the monotonic clock
    last_tick,
    timeout,      \* the timeout computed for the poll
    queue,        \* the terminal's input queue
    event,        \* the event read in this tick
    quit,         \* the loop was left by break
    shutdown,     \* history: the shutdown calls made so far, in order
    failed,       \* history: the calls that returned an error, in order
    tick,         \* history: the tick in progress
    last          \* history: the tick before it

vars == <<pc, result, error, raw_mode, alt_screen, cursor, sys, frame, now,
          last_tick, timeout, queue, event, quit, shutdown, failed, tick, last>>

NoFrame == [panic |-> FALSE, cpu_percent |-> 0, mem_percent |-> 0,
            ranked |-> <<>>, items |-> <<>>, none |-> TRUE]
NoSys == [cpu |-> F32(0), total |-> 0, used |-> 0, procs |-> <<>>, none |-> TRUE]
NoTick == [start |-> 0, cost |-> 0, fresh |-> FALSE, poll |-> "none",
           event |-> NoEvent, steps |-> <<>>, none |-> TRUE]

StartupPcs == {"enable_raw_mode", "enter_alt", "new_terminal", "new_all"}
LoopPcs == {"refresh", "derive", "render", "timeout", "poll", "read", "key_check",
            "tick_check"}
ShutdownPcs == {"disable_raw_mode", "leave_alt", "show_cursor", "return"}

\* the loop's state machine: Running while control is inside `loop { }`
LoopState ==
    IF pc \in StartupPcs THEN "Startup"
    ELSE IF pc \in LoopPcs THEN "Running" ELSE "Terminated"

Init ==
    /\ pc = "enable_raw_mode"
    /\ result = "none"
    /\ error = "none"
    /\ raw_mode = FALSE
    /\ alt_screen = FALSE
    /\ cursor = "shown"
    /\ sys = NoSys
    /\ frame = NoFrame
    /\ now = 0
    /\ last_tick = 0
    /\ timeout = 0
    /\ queue = <<>>
    /\ event = NoEvent
    /\ quit = FALSE
    /\ shutdown = <<>>
    /\ failed = <<>>
    /\ tick = NoTick
    /\ last = NoTick

\* ---------------------------------------------------------------- helpers

\* a `?` that was left out: the error is dropped and main goes on
TryIgnoringError(ok, call, next) == pc' = next /\ UNCHANGED <<result, error>>

\* a failing call releases the session before main returns (a drop guard)
TryThenRelease(ok, call, next) ==
    IF ok THEN pc' = next /\ UNCHANGED <<result, error>>
    ELSE pc' = "disable_raw_mode" /\ result' = "Err" /\ error' = call

\* a best-effort shutdown: the error of a failing shutdown call is remembered
\* and the calls after it are still made
TryKeepGoing(ok, call, next) ==
    IF ok THEN pc' = next /\ UNCHANGED <<result, error>>
    ELSE IF call \in {"disable_raw_mode", "leave_alt", "show_cursor"}
         THEN pc' = next /\ result' = "Err" /\ error' = call
         ELSE pc' = "returned" /\ result' = "Err" /\ error' = call

\* the `?` after a fallible call: go on when it returned Ok, else return
\* its error from main at once
Try(ok, call, next) ==
    IF ok THEN pc' = next /\ UNCHANGED <<result, error>>
    ELSE pc' = "returned" /\ result' = "Err" /\ error' = call

\* .unwrap_or(tick_rate): an overrun tick waits a whole interval more
TimeoutFullOnOverrun(elapsed) ==
    IF elapsed <= tick_rate THEN tick_rate - elapsed ELSE tick_rate

\* the poll always waits the whole interval, whatever the tick has used up
TimeoutIgnoringElapsed(elapsed) == tick_rate

\* line 112-114: tick_rate.checked_sub(elapsed).unwrap_or_else(|| 0)
Timeout(elapsed) == IF elapsed <= tick_rate THEN tick_rate - elapsed ELSE 0

\* KeyCode::Char('Q') in place of Char('q')
IsQuitUpperCase(ev) == ev.kind = "Key" /\ ev.code = "Q"

\* any key quits
IsQuitAnyKey(ev) == ev.kind = "Key"

\* line 117-118: `if let Event::Key(key)` and `key.code == KeyCode::Char('q')`
IsQuit(ev) == ev.kind = "Key" /\ ev.code = "q"

\* a `continue` after a key that does not quit: the tick clock check is skipped
AfterKeyCheckContinue(ev) == IF IsQuit(ev) THEN "disable_raw_mode" ELSE "refresh"

\* line 118-122: where control goes after the event was looked at
AfterKeyCheck(ev) == IF IsQuit(ev) THEN "disable_raw_mode" ELSE "tick_check"

\* `>` in place of `>=`: a tick that lasted exactly one interval is not due
TickDueStrictly(elapsed) == elapsed > tick_rate

\* line 124: the tick clock is due for a reset
TickDue(elapsed) == elapsed >= tick_rate

\* history: the tick in progress made the step `name`
Step(name) == tick' = [tick EXCEPT !.steps = Append(@, name)]

\* history: `call` returned Ok (ok) or an error
Outcome(ok, call) == failed' = IF ok THEN failed ELSE Append(failed, call)

\* ---------------------------------------------------------------- start-up

\* line 31: enable_raw_mode()?
EnableRawMode ==
    /\ pc = "enable_raw_mode"
    /\ \E ok \in BOOLEAN :
          /\ raw_mode' = ok
          /\ Try(ok, "enable_raw_mode", "enter_alt")
          /\ Outcome(ok, "enable_raw_mode")
    /\ UNCHANGED <<alt_screen, cursor, sys, frame, now, last_tick, timeout, queue,
                   event, quit, shutdown, tick, last>>

\* line 33: execute!(stdout, EnterAlternateScreen)?
EnterAlternateScreen ==
    /\ pc = "enter_alt"
    /\ \E ok \in BOOLEAN :
          /\ alt_screen' = ok
          /\ Try(ok, "enter_alt", "new_terminal")
          /\ Outcome(ok, "enter_alt")
    /\ UNCHANGED <<raw_mode, cursor, sys, frame, now, last_tick, timeout, queue,
                   event, quit, shutdown, tick, last>>

\* line 35-36: Terminal::new(backend)?
NewTerminal ==
    /\ pc = "new_terminal"
    /\ \E ok \in BOOLEAN : Try(ok, "new_terminal", "new_all") /\ Outcome(ok, "new_terminal")
    /\ UNCHANGED <<raw_mode, alt_screen, cursor, sys, frame, now, last_tick, timeout,
                   queue, event, quit, shutdown, tick, last>>

\* line 39-42: System::new_all() takes a first sample; last_tick = now
NewAll ==
    /\ pc = "new_all"
    /\ sys' \in LoopSnapshots
    /\ last_tick' = now
    /\ pc' = "refresh"
    /\ UNCHANGED <<result, error, raw_mode, alt_screen, cursor, frame, now, timeout,
                   queue, event, quit, shutdown, tick, last, failed>>

\* ---------------------------------------------------------------- one tick

\* line 45-46: terminal.draw calls the closure, which re-samples everything.
\* The draw phase of a tick starts here.  The draw pass hides the cursor.
Refresh ==
    /\ pc = "refresh"
    /\ now < Horizon * tick_rate
    /\ sys' \in LoopSnapshots
    /\ \E c \in DrawCosts :
          /\ now' = now + c
          /\ tick' = [start |-> now, cost |-> c, fresh |-> (last_tick = now),
                      poll |-> "none", event |-> NoEvent, steps |-> <<"refresh">>]
    /\ last' = tick
    /\ cursor' = "hidden"
    /\ pc' = "derive"
    /\ UNCHANGED <<result, error, raw_mode, alt_screen, frame, last_tick, timeout,
                   queue, event, quit, shutdown, failed>>

\* line 61-104: the closure derives the frame; unwrap() of an undefined
\* comparison panics and unwinds out of main
Derive ==
    /\ pc = "derive"
    /\ IF DeriveFrame(sys).panic
       THEN /\ pc' = "returned"
            /\ result' = "panic"
            /\ error' = "sort_by"
            /\ UNCHANGED frame
       ELSE /\ pc' = "render"
            /\ frame' = DeriveFrame(sys)
            /\ UNCHANGED <<result, error>>
    /\ Step("derive")
    /\ UNCHANGED <<raw_mode, alt_screen, cursor, sys, now, last_tick, timeout, queue,
                   event, quit, shutdown, last, failed>>

\* line 80-81, 106-110: the widgets are rendered, the closure returns (its
\* locals are dropped) and the draw pass writes the frame out: `})?`
Render ==
    /\ pc = "render"
    /\ \E ok \in BOOLEAN : Try(ok, "draw", "timeout") /\ Outcome(ok, "draw")
    /\ frame' = NoFrame
    /\ Step("draw")
    /\ UNCHANGED <<raw_mode, alt_screen, cursor, sys, now, last_tick, timeout, queue,
                   event, quit, shutdown, last>>

\* line 112-114
ComputeTimeout ==
    /\ pc = "timeout"
    /\ timeout' = Timeout(now - last_tick)
    /\ pc' = "poll"
    /\ Step("timeout")
    /\ UNCHANGED <<result, error, raw_mode, alt_screen, cursor, sys, frame, now,
                   last_tick, queue, event, quit, shutdown, last, failed>>

\* the user typed, or the terminal was resized, before the poll looks: the
\* event waits in the input queue
Arrive ==
    /\ pc = "poll"
    /\ Len(queue) < MaxQueue
    /\ \E e \in Events : queue' = Append(queue, e)
    /\ UNCHANGED <<pc, result, error, raw_mode, alt_screen, cursor, sys, frame, now,
                   last_tick, timeout, event, quit, shutdown, tick, last, failed>>

\* line 116: event::poll(timeout)? with an event already waiting: Ok(true)
\* at once
PollReady ==
    /\ pc = "poll"
    /\ queue # <<>>
    /\ pc' = "read"
    /\ tick' = [tick EXCEPT !.poll = "event", !.steps = Append(@, "poll")]
    /\ UNCHANGED <<result, error, raw_mode, alt_screen, cursor, sys, frame, now,
                   last_tick, timeout, queue, event, quit, shutdown, last, failed>>

\* line 116: an event arrives while the poll waits: Ok(true)
PollEvent ==
    /\ pc = "poll"
    /\ queue = <<>>
    /\ \E w \in Waits, e \in Events :
          /\ w < timeout
          /\ now' = now + w
          /\ queue' = <<e>>
    /\ pc' = "read"
    /\ tick' = [tick EXCEPT !.poll = "event", !.steps = Append(@, "poll")]
    /\ UNCHANGED <<result, error, raw_mode, alt_screen, cursor, sys, frame,
                   last_tick, timeout, event, quit, shutdown, last, failed>>

\* line 116: no event within the timeout: Ok(false), the block is skipped
PollTimeout ==
    /\ pc = "poll"
    /\ queue = <<>>
    /\ \E o \in Overshoots : now' = now + timeout + o
    /\ pc' = "tick_check"
    /\ tick' = [tick EXCEPT !.poll = "timeout", !.steps = Append(@, "poll")]
    /\ UNCHANGED <<result, error, raw_mode, alt_screen, cursor, sys, frame,
                   last_tick, timeout, queue, event, quit, shutdown, last, failed>>

\* line 116: the poll fails: `?`
PollFail ==
    /\ pc = "poll"
    /\ Try(FALSE, "poll", "read")
    /\ Outcome(FALSE, "poll")
    /\ tick' = [tick EXCEPT !.poll = "failed", !.steps = Append(@, "poll")]
    /\ UNCHANGED <<raw_mode, alt_screen, cursor, sys, frame, now, last_tick, timeout,
                   queue, event, quit, shutdown, last>>

\* line 117: event::read()? takes the first waiting event
Read ==
    /\ pc = "read"
    /\ \E ok \in BOOLEAN :
          /\ Try(ok, "read", "key_check")
          /\ Outcome(ok, "read")
          /\ IF ok THEN event' = Head(queue) /\ queue' = Tail(queue)
                   ELSE UNCHANGED <<event, queue>>
          /\ tick' = [tick EXCEPT !.event = IF ok THEN Head(queue) ELSE @,
                                  !.steps = Append(@, "read")]
    /\ UNCHANGED <<raw_mode, alt_screen, cursor, sys, frame, now, last_tick, timeout,
                   quit, shutdown, last>>

\* line 117-121: break on the quit key, else fall out of the block
KeyCheck ==
    /\ pc = "key_check"
    /\ pc' = AfterKeyCheck(event)
    /\ quit' = (AfterKeyCheck(event) \notin LoopPcs)
    /\ Step("quit_check")
    /\ UNCHANGED <<result, error, raw_mode, alt_screen, cursor, sys, frame, now,
                   last_tick, timeout, queue, event, shutdown, last, failed>>

\* line 124-126, and back to the head of the loop
TickCheck ==
    /\ pc = "tick_check"
    /\ last_tick' = IF TickDue(now - last_tick) THEN now ELSE last_tick
    /\ pc' = "refresh"
    /\ event' = NoEvent
    /\ Step("tick_check")
    /\ UNCHANGED <<result, error, raw_mode, alt_screen, cursor, sys, frame, now,
                   timeout, queue, quit, shutdown, last, failed>>

\* ---------------------------------------------------------------- shutdown

\* line 130: disable_raw_mode()?
DisableRawMode ==
    /\ pc = "disable_raw_mode"
    /\ \E ok \in BOOLEAN :
          /\ raw_mode' = IF ok THEN FALSE ELSE raw_mode
          /\ Try(ok, "disable_raw_mode", "leave_alt")
          /\ Outcome(ok, "disable_raw_mode")
    /\ shutdown' = Append(shutdown, "disable_raw_mode")
    /\ UNCHANGED <<alt_screen, cursor, sys, frame, now, last_tick, timeout, queue,
                   event, quit, tick, last>>

\* line 131: execute!(terminal.backend_mut(), LeaveAlternateScreen)?
LeaveAlternateScreen ==
    /\ pc = "leave_alt"
    /\ \E ok \in BOOLEAN :
          /\ alt_screen' = IF ok THEN FALSE ELSE alt_screen
          /\ Try(ok, "leave_alt", "show_cursor")
          /\ Outcome(ok, "leave_alt")
    /\ shutdown' = Append(shutdown, "leave_alt")
    /\ UNCHANGED <<raw_mode, cursor, sys, frame, now, last_tick, timeout, queue,
                   event, quit, tick, last>>

\* line 132: terminal.show_cursor()?
ShowCursor ==
    /\ pc = "show_cursor"
    /\ \E ok \in BOOLEAN :
          /\ cursor' = IF ok THEN "shown" ELSE cursor
          /\ Try(ok, "show_cursor", "return")
          /\ Outcome(ok, "show_cursor")
    /\ shutdown' = Append(shutdown, "show_cursor")
    /\ UNCHANGED <<raw_mode, alt_screen, sys, frame, now, last_tick, timeout, queue,
                   event, quit, tick, last>>

\* line 134: Ok(())
ReturnOk ==
    /\ pc = "return"
    /\ pc' = "returned"
    /\ result' = "Ok"
    /\ UNCHANGED <<error, raw_mode, alt_screen, cursor, sys, frame, now, last_tick,
                   timeout, queue, event, quit, shutdown, tick, last, failed>>

Next ==
    \/ EnableRawMode \/ EnterAlternateScreen \/ NewTerminal \/ NewAll
    \/ Refresh \/ Derive \/ Render \/ ComputeTimeout
    \/ Arrive \/ PollReady \/ PollEvent \/ PollTimeout \/ PollFail
    \/ Read \/ KeyCheck \/ TickCheck
    \/ DisableRawMode \/ LeaveAlternateScreen \/ ShowCursor \/ ReturnOk

Spec == Init /\ [][Next]_vars

\* The frame derivation alone, on every snapshot of Snapshots: the first
\* tick of a run, after its refresh.
InitFrame ==
    /\ pc = "derive"
    /\ result = "none"
    /\ error = "none"
    /\ raw_mode = TRUE
    /\ alt_screen = TRUE
    /\ cursor = "hidden"
    /\ sys \in Snapshots
    /\ frame = NoFrame
    /\ \E c \in DrawCosts :
          /\ now = c
          /\ tick = [start |-> 0, cost |-> c, fresh |-> TRUE, poll |-> "none",
                     event |-> NoEvent, steps |-> <<"refresh">>]
    /\ last_tick = 0
    /\ timeout = 0
    /\ queue = <<>>
    /\ event = NoEvent
    /\ quit = FALSE
    /\ shutdown = <<>>
    /\ failed = <<>>
    /\ last = NoTick

NextFrame == Derive \/ Render

SpecFrame == InitFrame /\ [][NextFrame]_vars

\* ================================================================ claims

ShutdownCalls == <<"disable_raw_mode", "leave_alt", "show_cursor">>
TickWithoutEvent == <<"refresh", "derive", "draw", "timeout", "poll", "tick_check">>
TickWithEvent ==
    <<"refresh", "derive", "draw", "timeout", "poll", "read", "quit_check", "tick_check">>
QuitTick == <<"refresh", "derive", "draw", "timeout", "poll", "read", "quit_check">>

IsPrefix(a, b) == Len(a) <= Len(b) /\ a = SubSeq(b, 1, Len(a))

\* the quit key was read in the tick in progress and has been looked at
QuitKeySeen == tick.event = KeyQ /\ pc # "key_check"

\* C1, first half: once the quit key read in a tick has been looked at, the
\* loop is no longer Running, and that tick made no step after the quit check
\* (no further refresh, draw or poll).
QuitLeavesLoopInSameTick ==
    QuitKeySeen => LoopState = "Terminated" /\ quit /\ tick.steps = QuitTick

\* C1 as stated: when the quit key was read, the loop leaves Running in that
\* tick and all three shutdown calls (disable raw mode, leave alternate
\* screen, show cursor) have been made by the time main has returned.
C1_QuitRunsWholeShutdown ==
    /\ QuitLeavesLoopInSameTick
    /\ QuitKeySeen /\ pc = "returned" => shutdown = ShutdownCalls

\* C1 amended: when the quit key was read, the loop leaves Running in that
\* tick and the shutdown sequence is run before main returns: disable raw
\* mode is always called, the calls are made in order, and a call is left out
\* only when the one before it failed, in which case main returns that error.
C1_QuitRunsShutdownUntilFailure ==
    /\ QuitLeavesLoopInSameTick
    /\ QuitKeySeen /\ pc = "returned" =>
          /\ shutdown # <<>>
          /\ IsPrefix(shutdown, ShutdownCalls)
          /\ shutdown # ShutdownCalls =>
                result = "Err" /\ error = shutdown[Len(shutdown)]
          /\ result = "Ok" => shutdown = ShutdownCalls

\* q was read, the loop was left and main returned after the whole shutdown
C1_Witness ==
    QuitKeySeen /\ pc = "returned" /\ result = "Ok" /\ shutdown = ShutdownCalls

\* C2: a tick whose poll timed out, or in which an event other than the quit
\* key was read, leaves the loop Running: control goes on to the tick clock
\* check and from there to the head of the loop, where the next tick starts;
\* main has not returned and the loop was not left.
C2_OtherInputKeepsRunning ==
    /\ tick.poll = "timeout" =>
          pc \in {"tick_check", "refresh"} /\ LoopState = "Running" /\ ~quit
    /\ tick.event \in Events \ {KeyQ} =>
          pc \in {"key_check", "tick_check", "refresh"} /\ LoopState = "Running" /\ ~quit
    /\ last # NoTick =>
          \/ last.poll = "timeout" /\ last.steps = TickWithoutEvent
          \/ last.event \in Events \ {KeyQ} /\ last.steps = TickWithEvent

\* a tick in which another key was read was followed by a tick that has
\* refreshed, drawn and polled
C2_Witness ==
    /\ last # NoTick /\ last.event = KeyX
    /\ Len(tick.steps) >= 5 /\ tick.steps[5] = "poll" /\ tick.poll = "timeout"

\* C3: once the loop has been entered, it is left only by the quit key or by
\* an I/O failure of draw, poll or read.
C3_OnlyQuitOrIoFailureEndsLoop ==
    sys # NoSys /\ LoopState = "Terminated" =>
        \/ quit
        \/ result = "Err" /\ error \in {"draw", "poll", "read"}

\* C4: the sort step of a tick never panics: once the frame derivation of a
\* tick has run, the run has not been aborted by it.
C4_RankingNeverAborts ==
    Len(tick.steps) >= 2 /\ tick.steps[2] = "derive" =>
        result # "panic" /\ (pc = "render" => frame # NoFrame)

\* C5: the timeout handed to the poll is max(0, tick_rate - elapsed), elapsed
\* being the time since last_tick: never negative, 0 when the interval is
\* used up, never above the interval.
C5_TimeoutIsClampedRemainder ==
    pc = "poll" =>
        /\ timeout = IF tick_rate - (now - last_tick) > 0
                     THEN tick_rate - (now - last_tick) ELSE 0
        /\ timeout >= 0
        /\ timeout <= tick_rate
        /\ (now - last_tick >= tick_rate => timeout = 0)

\* the poll is entered after refresh and draw overran the interval
C5_Witness == pc = "poll" /\ now - last_tick > tick_rate /\ timeout = 0

Abs(x) == IF x < 0 THEN -x ELSE x
Max(x, y) == IF x > y THEN x ELSE y

C7_MemPercentIsFloor ==
    pc = "render" =>
        /\ frame.mem_percent =
              IF sys.total = 0 THEN 0 ELSE (sys.used * 100) \div sys.total
        /\ sys.used <= sys.total => frame.mem_percent \in 0..100

F32Ge(x, y) == ~x.nan /\ ~y.nan /\ x.v >= y.v

\* C8: the list handed to the process list has at most 10 lines, in
\* descending order of CPU percent; equal readings are therefore adjacent.
C8_RankedViewTopTenDescending ==
    pc = "render" =>
        /\ Len(frame.items) <= 10
        /\ \A i, j \in 1..Len(frame.items) :
              i < j => F32Ge(frame.items[i].cpu, frame.items[j].cpu)
        /\ \A i, j, k \in 1..Len(frame.items) :
              i < k /\ k < j /\ frame.items[i].cpu = frame.items[j].cpu
                  => frame.items[k].cpu = frame.items[i].cpu

\* a table of more than 10 processes was cut to 10 lines holding a tie and
\* a strict descent
C8_Witness ==
    /\ pc = "render" /\ Len(sys.procs) > 10 /\ Len(frame.items) = 10
    /\ \E i \in 1..9 : frame.items[i].cpu = frame.items[i + 1].cpu
    /\ frame.items[1].cpu # frame.items[10].cpu

\* C9: main returns Ok only after the quit key and three successful shutdown
\* calls; any failing call ends the run at once with its error: it is the
\* only failure of the run, the last step made, and main has returned.
C9_FirstFailureEndsRun ==
    /\ result = "Ok" =>
          quit /\ failed = <<>> /\ shutdown = ShutdownCalls
               /\ ~raw_mode /\ ~alt_screen /\ cursor = "shown"
    /\ failed # <<>> =>
          /\ pc = "returned" /\ result = "Err" /\ failed = <<error>>
          /\ error \in {"draw", "poll", "read"} =>
                ~quit /\ tick.steps[Len(tick.steps)] = error
          /\ error \in {"enable_raw_mode", "enter_alt", "new_terminal"} =>
                sys = NoSys /\ tick = NoTick
          /\ error \in {"disable_raw_mode", "leave_alt", "show_cursor"} =>
                quit /\ shutdown[Len(shutdown)] = error
    /\ result = "Err" => failed # <<>>

\* the event read failed in a tick after the first, and main returned it
C9_Witness == result = "Err" /\ error = "read" /\ last # NoTick /\ pc = "returned"

\* the steps of a tick that the claim orders, without the helpers between
ClaimedSteps(steps) ==
    SelectSeq(steps, LAMBDA x : x \in {"refresh", "derive", "draw", "poll",
                                       "tick_check", "quit_check"})

\* C10 as stated: the steps of a tick are, in this order, refresh, frame
\* derivation, draw, poll, tick clock reset check, quit check.
C10_ResetCheckBeforeQuitCheck ==
    IsPrefix(ClaimedSteps(tick.steps),
             <<"refresh", "derive", "draw", "poll", "tick_check", "quit_check">>)

\* C10 amended: the steps of a tick are, in this order, one refresh, one
\* frame derivation, one draw, the timeout computation, one poll, then (only
\* when the poll reported an event) the event read and the quit check, and
\* last (only when the tick does not quit) the tick clock reset check; a
\* tick that is followed by another made all of them.
C10_QuitCheckBeforeResetCheck ==
    /\ IsPrefix(tick.steps, TickWithoutEvent) \/ IsPrefix(tick.steps, TickWithEvent)
    /\ last # NoTick => last.steps \in {TickWithoutEvent, TickWithEvent}
    /\ quit => tick.steps = QuitTick
    /\ pc = "tick_check" => ~quit /\ tick.steps[Len(tick.steps)] \in {"poll", "quit_check"}

\* a whole tick with an event was followed by a tick that quit before any
\* tick clock check
C10_Witness == last # NoTick /\ last.steps = TickWithEvent /\ quit /\ tick.steps = QuitTick

\* C11: the tick clock check at the end of a tick that does not quit sets
\* last_tick to the current time if and only if the time since last_tick is
\* at least the interval, and leaves it unchanged otherwise; no other step of
\* the loop changes it; so last_tick never decreases, is never later than the
\* current time, and is reset at the end of every tick whose poll timed out.
C11_TickClockResetWhenDue ==
    [][/\ last_tick' >= last_tick
       /\ last_tick' <= now'
       /\ pc = "tick_check" =>
             /\ now - last_tick >= tick_rate => last_tick' = now
             /\ now - last_tick < tick_rate => last_tick' = last_tick
             /\ tick.poll = "timeout" => last_tick' = now
       /\ pc \in LoopPcs \ {"tick_check"} => last_tick' = last_tick]_vars

\* a tick whose poll timed out exactly one interval after the last reset has
\* ended, and the tick clock was reset at its end
C11_Witness ==
    /\ pc = "refresh" /\ tick # NoTick /\ tick.poll = "timeout"
    /\ tick.steps = TickWithoutEvent
    /\ now = tick.start + tick_rate /\ last_tick = now

Min(x, y) == IF x < y THEN x ELSE y
Comparable(procs) == \A k \in 1..Len(procs) : ~procs[k].cpu.nan

\* C12: for a snapshot of n processes with comparable CPU readings, the
\* ranked view of a tick has min(10, n) entries, each a process record of the
\* snapshot refreshed in this tick, no record twice, the list lines are those
\* entries' lines, and no process left out has a CPU reading strictly above
\* that of an entry kept.
C12_RankedViewIsTopOfSnapshot ==
    pc = "render" /\ Comparable(sys.procs) =>
        /\ Len(frame.ranked) = Min(10, Len(sys.procs))
        /\ \A i \in 1..Len(frame.ranked) :
              \E k \in 1..Len(sys.procs) : sys.procs[k] = frame.ranked[i]
        /\ \A i, j \in 1..Len(frame.ranked) :
              i # j => frame.ranked[i].pid # frame.ranked[j].pid
        /\ Len(frame.items) = Len(frame.ranked)
        /\ \A i \in 1..Len(frame.items) :
              /\ frame.items[i].pid = frame.ranked[i].pid
              /\ frame.items[i].cpu = frame.ranked[i].cpu
        /\ \A k \in 1..Len(sys.procs), i \in 1..Len(frame.ranked) :
              (\A j \in 1..Len(frame.ranked) : frame.ranked[j].pid # sys.procs[k].pid)
                  => sys.procs[k].cpu.v <= frame.ranked[i].cpu.v

\* in a tick after one that drew a shorter table, a table of more than 10
\* processes was ranked: 10 are kept and one left out is strictly below them
C12_Witness ==
    /\ pc = "render" /\ Comparable(sys.procs) /\ Len(sys.procs) > 10
    /\ last # NoTick /\ Len(frame.ranked) = 10
    /\ \E k \in 1..Len(sys.procs) :
          /\ \A j \in 1..10 : frame.ranked[j].pid # sys.procs[k].pid
          /\ sys.procs[k].cpu.v < frame.ranked[10].cpu.v

\* C13: whatever the total and used memory of the snapshot are, the percent
\* handed to the memory gauge is an integer within 0..100.
C13_MemPercentWithinGauge ==
    pc = "render" => frame.mem_percent \in 0..100

\* C14: the percent handed to the CPU gauge is the global CPU reading cast to
\* u16: 0 for NaN and for a negative reading, the whole percents of the
\* reading otherwise (the fraction is discarded), 65535 for a reading of
\* 65536 % or more; nothing clamps it at 100, so a reading of 101 % or more
\* gives the gauge more than 100.
C14_CpuPercentIsUnclampedCast ==
    pc = "render" =>
        /\ sys.cpu.nan => frame.cpu_percent = 0
        /\ ~sys.cpu.nan /\ sys.cpu.v < 0 => frame.cpu_percent = 0
        /\ ~sys.cpu.nan /\ sys.cpu.v >= 0 /\ sys.cpu.v < 655360 =>
              /\ 10 * frame.cpu_percent <= sys.cpu.v
              /\ sys.cpu.v < 10 * (frame.cpu_percent + 1)
        /\ ~sys.cpu.nan /\ sys.cpu.v >= 655360 => frame.cpu_percent = 65535
        /\ ~sys.cpu.nan /\ sys.cpu.v >= 1010 => frame.cpu_percent > 100

\* a reading of 400 % was handed to the gauge as 400
C14_Witness == pc = "render" /\ sys.cpu = F32(4000) /\ frame.cpu_percent = 400

\* the fallible calls between enabling raw mode and the shutdown sequence
SessionCalls == {"enter_alt", "new_terminal", "draw", "poll", "read"}

\* C15: the shutdown sequence is run if and only if the loop was left by the
\* quit key: a shutdown call implies quit, and a quit is followed by the
\* first shutdown call at once. Raw mode and the alternate screen are held all
\* through the loop, and a run that ended by a failure of entering the
\* alternate screen, of constructing the terminal, of a draw, of the poll or
\* of the event read (or by the panic of the sort) has made no shutdown call:
\* raw mode is still enabled, and the alternate screen, if it was entered, has
\* not been left.
C15_ReleaseOnlyOnQuit ==
    /\ shutdown # <<>> \/ pc \in ShutdownPcs => quit
    /\ quit => pc = "disable_raw_mode" \/ shutdown # <<>>
    /\ pc \in LoopPcs => raw_mode /\ alt_screen /\ shutdown = <<>>
    /\ pc = "returned" /\ result = "Err" /\ error \in SessionCalls =>
          /\ ~quit /\ shutdown = <<>>
          /\ raw_mode
          /\ alt_screen = (error # "enter_alt")
    /\ pc = "returned" /\ result = "panic" =>
          ~quit /\ shutdown = <<>> /\ raw_mode /\ alt_screen

\* a draw failed in a tick after the first: main returned with raw mode on
\* and the alternate screen still entered
C15_Witness ==
    /\ pc = "returned" /\ result = "Err" /\ error = "draw" /\ last # NoTick
    /\ raw_mode /\ alt_screen /\ shutdown = <<>>

\* the quit key waits in the input queue
QuitQueued == \E i \in 1..Len(queue) : queue[i] = KeyQ

\* C16: a tick reads at most one event, after its refresh and draw and a
\* poll, and a run that has ended while a 'q' was still waiting in the input
\* queue, without a quit, was ended by an I/O failure.
C16_QueuedQuitEndsRun ==
    /\ Len(SelectSeq(tick.steps, LAMBDA x : x = "read")) <= 1
    /\ tick # NoTick /\ tick.poll = "event" /\ pc # "read" =>
          IsPrefix(<<"refresh", "derive", "draw", "timeout", "poll", "read">>,
                   tick.steps)
    /\ pc = "returned" /\ ~quit /\ QuitQueued =>
          result = "Err" /\ error \in {"draw", "poll", "read"}

\* `call` returned an error in this run
HasFailed(call) == \E j \in 1..Len(failed) : failed[j] = call

\* the shutdown calls made when control is at `at`
ShutdownBefore(at) ==
    CASE at = "disable_raw_mode" -> <<>>
      [] at = "leave_alt" -> <<"disable_raw_mode">>
      [] at = "show_cursor" -> <<"disable_raw_mode", "leave_alt">>
      [] at = "return" -> ShutdownCalls

\* C17: the shutdown calls are made in the order disable raw mode, leave the
\* alternate screen, show the cursor, each at most once, and each one takes
\* effect when it succeeds; while the shutdown is under way no call has
\* failed; a shutdown call that failed is the last one made, and main has
\* returned its error.
C17_ShutdownInOrderUntilFailure ==
    /\ IsPrefix(shutdown, ShutdownCalls)
    /\ pc \in ShutdownPcs => shutdown = ShutdownBefore(pc) /\ failed = <<>>
    /\ \A i \in 1..Len(shutdown) :
          IF HasFailed(shutdown[i])
          THEN /\ i = Len(shutdown)
               /\ pc = "returned" /\ result = "Err" /\ error = shutdown[i]
          ELSE /\ i = 1 => ~raw_mode
               /\ i = 2 => ~alt_screen
               /\ i = 3 => cursor = "shown"

\* leaving the alternate screen failed: raw mode is off, the alternate screen
\* is still entered, the cursor was not shown, and main returned that error
C17_Witness ==
    /\ pc = "returned" /\ quit /\ result = "Err" /\ error = "leave_alt"
    /\ shutdown = <<"disable_raw_mode", "leave_alt">>
    /\ ~raw_mode /\ alt_screen /\ cursor = "hidden"

====
